---- MODULE Spec2Model ----
(***************************************************************************)
(* Model of the computational core of the stock dashboard (src/app.py):    *)
(*   - load_data            rolling means MA5 / MA20 of the closes          *)
(*   - run_backtest         the MA5/MA20 crossover backtest                 *)
(*   - generate_signals     wash-sale detection and the four labels         *)
(*   - get_live_prices and the valuation of the holdings (tab4)             *)
(*   - load_data            every indicator column of the frame             *)
(*                                                                         *)
(* Bars are indexed from 0 as in the code; column c of the frame is a      *)
(* sequence and At(c, k) is its value at the 0-based index k.              *)
(* Money and prices of the backtest are whole numbers: on whole-number     *)
(* closes every float operation of run_backtest (//, *, -, +) is exact.    *)
(* A rolling mean is kept as the exact fraction sum/window; the closes     *)
(* drawn here are whole numbers, so two means that differ differ by at     *)
(* least 1/20 and float rounding cannot change a comparison.               *)
(***************************************************************************)
EXTENDS Integers, Sequences, FiniteSets

VARIABLES
    data,             \* the frame: [Close, MA5, MA20] columns (full_df)
    initial_capital,  \* run_backtest's parameter
    pc,               \* position in the main flow
    Signal,           \* df['Signal'] column of run_backtest
    i,                \* loop index of run_backtest (0-based)
    cash, position, trade_log, equity_curve,
    total_return,     \* run_backtest's second result
    raised,           \* the exception that left run_backtest, or "none"
    sig_df,           \* df = full_df.tail(days_to_show), the frame of the signals
    sig_pc,           \* position in the signal flow
    signals,          \* generate_signals' result
    sig_raised,       \* the exception that left generate_signals, or "none"
    edited_df,        \* the holdings as edited: rows of symbol, avgCost, shares
    feed,             \* what yf.download answers: failure, or a Close per symbol
    val_pc,           \* position in the valuation
    live_prices,      \* get_live_prices' result
    res_df,           \* the valued holdings
    total_val, total_pl,
    ind_df,           \* load_data's frame with every indicator column
    ind_pc,           \* position in load_data
    var_95            \* load_data's second result

btVars == <<data, initial_capital, pc, Signal, i, cash, position, trade_log,
            equity_curve, total_return, raised>>

sigVars == <<sig_df, sig_pc, signals, sig_raised>>

valVars == <<edited_df, feed, val_pc, live_prices, res_df, total_val, total_pl>>

indVars == <<ind_df, ind_pc, var_95>>

vars == <<btVars, sigVars, valVars, indVars>>

----------------------------------------------------------------------------
(* Bounds and program constants *)

MaxTail == 4          \* free bars after the flat lead-in
MaxPrice == 3         \* closes are 1..MaxPrice ticks
MaxCap == 4           \* initial capital is 0..MaxCap ticks
MaxExtra == 1         \* bars of the signal frame beyond the 20-bar window
MaxFree == 1          \* bars before the last one that may be breakout candles
MaxHoldings == 2      \* rows of the holdings table
MaxMore == 2          \* bars of the indicator frame beyond the flat lead-in
MaxClose == 2         \* closes of the indicator frame are 1..MaxClose

W5 == 5               \* rolling(window=5)
W20 == 20             \* rolling(window=20)
DefaultCapital == 100000

Tick == DefaultCapital \div 2
FlatLen == W20 - 1

----------------------------------------------------------------------------
(* Numbers: a value is NaN or the fraction num/den with den > 0 *)

NaN == [nan |-> TRUE, num |-> 0, den |-> 1]
Frac(n, d) == [nan |-> FALSE, num |-> n, den |-> d]

RECURSIVE GCD(_, _)
GCD(a, b) == IF b = 0 THEN a ELSE GCD(b, a % b)

Abs(x) == IF x < 0 THEN -x ELSE x

\* n/d in lowest terms
Reduced(n, d) ==
    LET g == GCD(Abs(n), d)
    IN  Frac(n \div g, d \div g)

\* comparisons of pandas/numpy floats: any comparison with NaN is False
Gt(a, b) == ~a.nan /\ ~b.nan /\ a.num * b.den > b.num * a.den
Lt(a, b) == ~a.nan /\ ~b.nan /\ a.num * b.den < b.num * a.den
Ge(a, b) == ~a.nan /\ ~b.nan /\ a.num * b.den >= b.num * a.den
Le(a, b) == ~a.nan /\ ~b.nan /\ a.num * b.den <= b.num * a.den

At(col, k) == col[k + 1]

\* Series.shift(1): the previous row's value, NaN in row 0
Shift1(col, k) == IF k = 0 THEN NaN ELSE At(col, k - 1)

RECURSIVE SumRange(_, _, _)
SumRange(col, lo, hi) ==
    IF lo > hi THEN 0 ELSE At(col, hi) + SumRange(col, lo, hi - 1)

----------------------------------------------------------------------------
(* float64 arithmetic of numpy/pandas, as generate_signals and the portfolio *)
(* valuation use it: IEEE-754 binary64, round to nearest, ties to even.      *)
(* A natural number is a little-endian sequence of limbs in 0..Base-1 with   *)
(* no leading zero limb. A float is nan, +-inf, or (-1)^s * m * 2^e with m   *)
(* odd (zero: m = <<>>, e = 0, s = 0). Exponent overflow and subnormals are  *)
(* outside the values drawn here.                                            *)

Base == 2^15
Precision == 53

Limb(a, j) == IF j <= Len(a) THEN a[j] ELSE 0

RECURSIVE Strip(_)
Strip(a) ==
    IF a = <<>> THEN a
    ELSE IF a[Len(a)] = 0 THEN Strip(SubSeq(a, 1, Len(a) - 1)) ELSE a

RECURSIVE NatOf(_)
NatOf(n) == IF n = 0 THEN <<>> ELSE <<n % Base>> \o NatOf(n \div Base)

RECURSIVE AddC(_, _, _)
AddC(a, b, c) ==
    IF a = <<>> /\ b = <<>> THEN (IF c = 0 THEN <<>> ELSE <<c>>)
    ELSE LET t == Limb(a, 1) + Limb(b, 1) + c
         IN  <<t % Base>> \o AddC(SubSeq(a, 2, Len(a)), SubSeq(b, 2, Len(b)),
                                  t \div Base)

BAdd(a, b) == AddC(a, b, 0)

\* a - b for a >= b
RECURSIVE SubC(_, _, _)
SubC(a, b, c) ==
    IF a = <<>> THEN <<>>
    ELSE LET t == a[1] - Limb(b, 1) - c
         IN  <<t % Base>> \o SubC(SubSeq(a, 2, Len(a)), SubSeq(b, 2, Len(b)),
                                  IF t < 0 THEN 1 ELSE 0)

BSub(a, b) == Strip(SubC(a, b, 0))

\* -1, 0, 1 as a < b, a = b, a > b
RECURSIVE CmpFrom(_, _, _)
CmpFrom(a, b, j) ==
    IF j = 0 THEN 0
    ELSE IF a[j] < b[j] THEN -1
    ELSE IF a[j] > b[j] THEN 1
    ELSE CmpFrom(a, b, j - 1)

BCmp(a, b) ==
    IF Len(a) < Len(b) THEN -1
    ELSE IF Len(a) > Len(b) THEN 1
    ELSE CmpFrom(a, b, Len(a))

\* a * d for one limb d
RECURSIVE MulC(_, _, _)
MulC(a, d, c) ==
    IF a = <<>> THEN (IF c = 0 THEN <<>> ELSE <<c>>)
    ELSE LET t == a[1] * d + c
         IN  <<t % Base>> \o MulC(SubSeq(a, 2, Len(a)), d, t \div Base)

BMulSmall(a, d) == IF d = 0 THEN <<>> ELSE MulC(a, d, 0)

LimbShift(a, n) == IF a = <<>> THEN a ELSE [j \in 1..n |-> 0] \o a

RECURSIVE BMul(_, _)
BMul(a, b) ==
    IF b = <<>> THEN <<>>
    ELSE BAdd(BMulSmall(a, b[1]), LimbShift(BMul(a, SubSeq(b, 2, Len(b))), 1))

\* floor(a / d) for one limb d, from the top limb down; r is the carried remainder
RECURSIVE DivC(_, _, _)
DivC(a, d, r) ==
    IF a = <<>> THEN <<>>
    ELSE LET t == r * Base + a[Len(a)]
         IN  DivC(SubSeq(a, 1, Len(a) - 1), d, t % d) \o <<t \div d>>

BDivSmall(a, d) == Strip(DivC(a, d, 0))

RECURSIVE ModC(_, _, _)
ModC(a, d, r) ==
    IF a = <<>> THEN r
    ELSE ModC(SubSeq(a, 1, Len(a) - 1), d, (r * Base + a[Len(a)]) % d)

BModSmall(a, d) == ModC(a, d, 0)

RECURSIVE BitsOf(_)
BitsOf(n) == IF n = 0 THEN 0 ELSE 1 + BitsOf(n \div 2)

BitLen(a) == IF a = <<>> THEN 0 ELSE 15 * (Len(a) - 1) + BitsOf(a[Len(a)])

\* a * 2^n
ShiftLeft(a, n) == LimbShift(BMulSmall(a, 2^(n % 15)), n \div 15)

\* floor(a / 2^n)
ShiftRight(a, n) ==
    IF n \div 15 >= Len(a) THEN <<>>
    ELSE BDivSmall(SubSeq(a, n \div 15 + 1, Len(a)), 2^(n % 15))

IsOdd(a) == a # <<>> /\ a[1] % 2 = 1

\* bit j of a, bit 0 the lowest
Bit(a, j) == (Limb(a, j \div 15 + 1) \div 2^(j % 15)) % 2

\* floor(r / b) for r < b * Base: the quotient limb, found bit by bit
RECURSIVE DigitOf(_, _, _, _)
DigitOf(r, b, d, bit) ==
    IF bit < 0 THEN d
    ELSE IF BCmp(BMulSmall(b, d + 2^bit), r) <= 0
    THEN DigitOf(r, b, d + 2^bit, bit - 1)
    ELSE DigitOf(r, b, d, bit - 1)

\* long division of a by b > 0, limb j of a downwards; r is the running
\* remainder, r2 the remainder with limb j brought down, d the quotient limb
RECURSIVE DivLimbs(_, _, _, _)

DivDigit(a, b, j, r2, d) ==
    DivLimbs(a, b, j - 1, BSub(r2, BMulSmall(b, d))) \o <<d>>

DivStep(a, b, j, r2) == DivDigit(a, b, j, r2, DigitOf(r2, b, 0, 14))

DivLimbs(a, b, j, r) ==
    IF j = 0 THEN <<>> ELSE DivStep(a, b, j, Strip(<<a[j]>> \o r))

BDiv(a, b) == Strip(DivLimbs(a, b, Len(a), <<>>))

FNaN == [k |-> "nan", s |-> 0, m |-> <<>>, e |-> 0]
FInf(sign) == [k |-> "inf", s |-> sign, m |-> <<>>, e |-> 0]
FZero == [k |-> "fin", s |-> 0, m |-> <<>>, e |-> 0]

\* trailing zero bits moved from the mantissa into the exponent
RECURSIVE OddForm(_, _, _)
OddForm(sign, m, e) ==
    IF m = <<>> THEN FZero
    ELSE IF m[1] = 0 THEN OddForm(sign, SubSeq(m, 2, Len(m)), e + 15)
    ELSE IF m[1] % 2 = 0 THEN OddForm(sign, BDivSmall(m, 2), e + 1)
    ELSE [k |-> "fin", s |-> sign, m |-> m, e |-> e]

\* q or q + 1 as the dropped part is below, at (c = 0) or above one half
TieEven(q, c) == IF c > 0 \/ (c = 0 /\ IsOdd(q)) THEN BAdd(q, <<1>>) ELSE q

NearestOf(m, sh, q) ==
    TieEven(q, BCmp(BMulSmall(BSub(m, ShiftLeft(q, sh)), 2), ShiftLeft(<<1>>, sh)))

\* m / 2^sh rounded to a whole number, ties to even
Nearest(m, sh) == NearestOf(m, sh, ShiftRight(m, sh))

RoundBy(sign, m, e, sh) == OddForm(sign, Nearest(m, sh), e + sh)

\* the exact value (-1)^sign * m * 2^e rounded to 53 bits, ties to even
Round(sign, m, e) ==
    RoundBy(sign, m, e, IF BitLen(m) > Precision THEN BitLen(m) - Precision ELSE 0)

\* int -> float64
FInt(n) == OddForm(IF n < 0 THEN 1 ELSE 0, NatOf(IF n < 0 THEN -n ELSE n), 0)

FIsNaN(x) == x.k = "nan"
FIsZero(x) == x.k = "fin" /\ x.m = <<>>

FNeg(x) == IF x.k = "nan" \/ FIsZero(x) THEN x ELSE [x EXCEPT !.s = 1 - x.s]

FMul(x, y) ==
    IF x.k = "nan" \/ y.k = "nan" THEN FNaN
    ELSE IF x.k = "inf" \/ y.k = "inf"
    THEN (IF FIsZero(x) \/ FIsZero(y) THEN FNaN ELSE FInf((x.s + y.s) % 2))
    ELSE Round((x.s + y.s) % 2, BMul(x.m, y.m), x.e + y.e)

\* mx * 2^e and my * 2^e with signs sx and sy, c comparing mx with my
AddSigned(sx, sy, mx, my, e, c) ==
    Round(IF sx = sy \/ c >= 0 THEN sx ELSE sy,
          IF sx = sy THEN BAdd(mx, my)
          ELSE IF c >= 0 THEN BSub(mx, my) ELSE BSub(my, mx),
          e)

AddAligned(sx, sy, mx, my, e) == AddSigned(sx, sy, mx, my, e, BCmp(mx, my))

AddAt(x, y, e) ==
    AddAligned(x.s, y.s, ShiftLeft(x.m, x.e - e), ShiftLeft(y.m, y.e - e), e)

FAdd(x, y) ==
    IF x.k = "nan" \/ y.k = "nan" THEN FNaN
    ELSE IF x.k = "inf"
    THEN (IF y.k = "inf" /\ y.s # x.s THEN FNaN ELSE x)
    ELSE IF y.k = "inf" THEN y
    ELSE IF FIsZero(x) THEN y
    ELSE IF FIsZero(y) THEN x
    ELSE AddAt(x, y, IF x.e < y.e THEN x.e ELSE y.e)

FSub(x, y) == FAdd(x, FNeg(y))

\* x / y: the quotient to 55 bits or more, with the remainder as a sticky bit
\* 2q, plus a sticky 1 when a is not q * b
Sticky(a, b, q) ==
    BAdd(BMulSmall(q, 2), IF BSub(a, BMul(q, b)) = <<>> THEN <<>> ELSE <<1>>)

DivShifted(sign, a, b, e) == Round(sign, Sticky(a, b, BDiv(a, b)), e)

DivBy(sign, mx, my, e, sh) == DivShifted(sign, ShiftLeft(mx, sh), my, e - sh - 1)

DivNeed(mx, my) == Precision + 2 + BitLen(my) - BitLen(mx)

FDiv(x, y) ==
    IF x.k = "nan" \/ y.k = "nan" THEN FNaN
    ELSE IF x.k = "inf"
    THEN (IF y.k = "inf" THEN FNaN ELSE FInf((x.s + y.s) % 2))
    ELSE IF y.k = "inf" THEN FZero
    ELSE IF FIsZero(y)
    THEN (IF FIsZero(x) THEN FNaN ELSE FInf((x.s + y.s) % 2))
    ELSE IF FIsZero(x) THEN FZero
    ELSE DivBy((x.s + y.s) % 2, x.m, y.m, x.e - y.e,
               IF DivNeed(x.m, y.m) > 0 THEN DivNeed(x.m, y.m) ELSE 0)

FSign(x) == IF FIsZero(x) THEN 0 ELSE IF x.s = 1 THEN -1 ELSE 1

CmpAt(x, y, e) == BCmp(ShiftLeft(x.m, x.e - e), ShiftLeft(y.m, y.e - e))

\* -1, 0, 1 for finite or infinite x, y
FCmp(x, y) ==
    IF FSign(x) # FSign(y) THEN (IF FSign(x) < FSign(y) THEN -1 ELSE 1)
    ELSE IF FSign(x) = 0 THEN 0
    ELSE IF x.k = "inf" \/ y.k = "inf"
    THEN (IF x.k = y.k THEN 0 ELSE IF x.k = "inf" THEN FSign(x) ELSE -FSign(x))
    ELSE FSign(x) * CmpAt(x, y, IF x.e < y.e THEN x.e ELSE y.e)

\* float comparisons: False whenever an operand is nan
FGt(x, y) == ~FIsNaN(x) /\ ~FIsNaN(y) /\ FCmp(x, y) > 0
FLt(x, y) == ~FIsNaN(x) /\ ~FIsNaN(y) /\ FCmp(x, y) < 0
FGe(x, y) == ~FIsNaN(x) /\ ~FIsNaN(y) /\ FCmp(x, y) >= 0

\* the float64 nearest to the decimal literal n / 10^d, as Python reads it
FDec(n, d) == FDiv(FInt(n), FInt(10^d))

----------------------------------------------------------------------------
(* load_data: the rolling means *)

\* mutant: rolling(window=w, min_periods=1), means over partial windows
MinPeriodsOne(w) == 1

\* min_periods of rolling(window=w): pandas defaults it to the window
MinPeriods(w) == w

\* Series.rolling(window=w).mean() at row k
RollingMean(col, w, k) ==
    IF k + 1 < MinPeriods(w) THEN NaN
    ELSE LET lo == IF k - w + 1 < 0 THEN 0 ELSE k - w + 1
         IN  Frac(SumRange(col, lo, k), k - lo + 1)

Rolling(col, w) == [k \in 1..Len(col) |-> RollingMean(col, w, k - 1)]

----------------------------------------------------------------------------
(* run_backtest *)

\* mutant: the signal follows the level of ma5 against ma20, not the cross
SignalAtLevel(df, k) ==
    IF Lt(At(df.MA5, k), At(df.MA20, k)) THEN -1
    ELSE IF Gt(At(df.MA5, k), At(df.MA20, k)) THEN 1 ELSE 0

\* lines 97-99: the Signal column
SignalAt(df, k) ==
    LET up   == Gt(At(df.MA5, k), At(df.MA20, k))
                /\ Le(Shift1(df.MA5, k), Shift1(df.MA20, k))
        down == Lt(At(df.MA5, k), At(df.MA20, k))
                /\ Ge(Shift1(df.MA5, k), Shift1(df.MA20, k))
    IN  IF down THEN -1 ELSE IF up THEN 1 ELSE 0

\* mutant: the share count rounded up
BuySharesCeil(c, price) == (c + price - 1) \div price

\* line 112: int(cash // price)
BuyShares(c, price) == c \div price

\* mutant: the open position is left out of the equity
CurrentEquityCashOnly(c, pos, price) == c

\* line 121
CurrentEquity(c, pos, price) == c + pos * price

\* line 125; numpy gives nan for 0/0 and +-inf (den = 0 here) for x/0
TotalReturn(final, cap) ==
    IF cap = 0
    THEN IF final = 0 THEN NaN ELSE Frac(IF final > 0 THEN 1 ELSE -1, 0)
    ELSE Reduced((final - cap) * 100, cap)

Trade(date, type, price, shares) ==
    [Date |-> date, Type |-> type, Price |-> price, Shares |-> shares]

----------------------------------------------------------------------------
(* generate_signals (lines 211-262), called by the main flow on              *)
(* df = full_df.tail(days_to_show) with the period high and low              *)

Factor103 == FDec(103, 2)     \* 1.03
Factor15 == FDec(15, 1)       \* 1.5
Factor06 == FDec(6, 1)        \* 0.6
Fib786 == FDec(786, 3)        \* 0.786
Fib618 == FDec(618, 3)        \* 0.618
Fib236 == FDec(236, 3)        \* 0.236

RECURSIVE ToInt(_)
ToInt(a) == IF a = <<>> THEN 0 ELSE a[1] + Base * ToInt(SubSeq(a, 2, Len(a)))

\* f"{x:.1f}" of a finite x, as the number of tenths printed: the exact value
\* times ten, rounded to a whole number, ties to even
Format1f(x) ==
    (IF x.s = 1 THEN -1 ELSE 1)
        * ToInt(IF x.e >= 0 THEN ShiftLeft(BMulSmall(x.m, 10), x.e)
                ELSE Nearest(BMulSmall(x.m, 10), -x.e))

RECURSIVE VolumeSum(_, _, _)
VolumeSum(df, lo, hi) ==
    IF lo > hi THEN 0 ELSE At(df, hi).Volume + VolumeSum(df, lo, hi - 1)

\* line 217: df['Volume'].rolling(window=20).mean().iloc[-1]
AvgVol20(df) ==
    IF Len(df) < W20 THEN FNaN
    ELSE FDiv(FInt(VolumeSum(df, Len(df) - W20, Len(df) - 1)), FInt(W20))

\* line 216: the rows of df.iloc[-20:-1]
RecentRows(df) ==
    {k \in 0..(Len(df) - 2) : k >= Len(df) - W20}

\* line 218: the breakout candles among them
BullishCandles(df) ==
    LET avg_vol_20 == AvgVol20(df)
    IN  {k \in RecentRows(df) :
            /\ FGt(At(df, k).Close, FMul(At(df, k).Open, Factor103))
            /\ FGt(FInt(At(df, k).Volume), FMul(avg_vol_20, Factor15))}

\* bullish_candles.iloc[0], the oldest candle instead of the newest
KeyCandleFirst(candles) == CHOOSE k \in candles : \A j \in candles : j >= k

\* line 220: bullish_candles.iloc[-1]
KeyCandle(candles) == CHOOSE k \in candles : \A j \in candles : j <= k

NoMsg == [date |-> -1, low |-> 0]

\* lines 222-226: the last bar against the key candle
VolumeDryUp(last, key_candle) ==
    IF /\ FGe(last.Close, key_candle.Low)
       /\ FLt(FInt(last.Volume), FMul(FInt(key_candle.Volume), Factor06))
    THEN [wash_detected |-> TRUE,
          wash_sale_msg |-> [date |-> key_candle.Date,
                             low |-> Format1f(key_candle.Low)]]
    ELSE [wash_detected |-> FALSE, wash_sale_msg |-> NoMsg]

\* lines 219-221
WashSaleAmong(df, bullish_candles) ==
    IF bullish_candles = {} THEN [wash_detected |-> FALSE, wash_sale_msg |-> NoMsg]
    ELSE VolumeDryUp(At(df, Len(df) - 1), At(df, KeyCandle(bullish_candles)))

\* lines 212-226
WashSale(df) == WashSaleAmong(df, BullishCandles(df))

\* line 229: low + diff * level
FibLevel(low, diff, level) == FAdd(low, FMul(diff, level))

\* lines 228-242
FibZone(last_close, low, diff) ==
    IF FGe(last_close, FibLevel(low, diff, Fib786)) THEN "danger"
    ELSE IF FGt(last_close, FibLevel(low, diff, Fib618)) THEN "elevated"
    ELSE IF FLt(last_close, FibLevel(low, diff, Fib236)) THEN "accumulation"
    ELSE "neutral"

FibPosition(last_close, high, low) == FibZone(last_close, low, FSub(high, low))

\* lines 244-246
Bollinger(last_close, bb_upper) ==
    IF FGt(last_close, bb_upper) THEN "overheated" ELSE "in channel"

\* lines 248-251
ObvTrend(last_obv, last_obv_ma) ==
    IF FGt(last_obv, last_obv_ma) THEN "inflow" ELSE "outflow"

\* lines 253-256
Macd(hist, prev_hist) ==
    IF FGt(hist, FZero) /\ FGt(hist, prev_hist) THEN "strengthening"
    ELSE IF FGt(hist, FZero) /\ FLt(hist, prev_hist) THEN "weakening"
    ELSE "contested"

NoSignals ==
    [wash_detected |-> FALSE, wash_sale_msg |-> NoMsg, position |-> "",
     bollinger |-> "", obv |-> "", macd |-> ""]

\* lines 258-262: the returned dict
SignalsDict(wash, last, prev, high, low) ==
    [wash_detected |-> wash.wash_detected,
     wash_sale_msg |-> wash.wash_sale_msg,
     position |-> FibPosition(last.Close, high, low),
     bollinger |-> Bollinger(last.Close, last.BB_Upper),
     obv |-> ObvTrend(last.OBV, last.OBV_MA),
     macd |-> Macd(last.MACD_Hist, prev.MACD_Hist)]

\* the whole function: iloc[-1] of an empty frame (line 212) and iloc[-2] of a
\* one-row frame (line 254) raise IndexError
GenerateSignals(df, high, low) ==
    IF Len(df) < 2 THEN [raised |-> "IndexError", signals |-> NoSignals]
    ELSE [raised |-> "none",
          signals |-> SignalsDict(WashSale(df), At(df, Len(df) - 1),
                                  At(df, Len(df) - 2), high, low)]

FMaxOf(x, y) == IF FGt(y, x) THEN y ELSE x
FMinOf(x, y) == IF FLt(y, x) THEN y ELSE x

\* line 293: df['High'].max()
RECURSIVE HighMax(_, _)
HighMax(df, n) ==
    IF n = 1 THEN df[1].High ELSE FMaxOf(HighMax(df, n - 1), df[n].High)

\* line 294: df['Low'].min()
RECURSIVE LowMin(_, _)
LowMin(df, n) ==
    IF n = 1 THEN df[1].Low ELSE FMinOf(LowMin(df, n - 1), df[n].Low)

----------------------------------------------------------------------------
(* Inputs of the signal flow: frames of quiet bars with breakout candles     *)
(* among the last bars and at the edge of the 20-bar window                  *)

Bar(o, h, l, c, v) == [Open |-> FInt(o), High |-> FInt(h), Low |-> FInt(l),
                       Close |-> FInt(c), Volume |-> v]

Wide == Bar(150, 200, 100, 150, 100)
Flat == Bar(150, 150, 150, 150, 100)
Breakout1 == Bar(150, 160, 148, 160, 400)
Breakout2 == Bar(170, 180, 169, 180, 250)

BaseBars == {Wide, Flat}

\* the last bar opens at 150 and closes at c on volume v
LastBar(c, v) ==
    [Open |-> FInt(150), High |-> FMaxOf(FInt(150), c), Low |-> FMinOf(FInt(150), c),
     Close |-> c, Volume |-> v]

LastCloses == {FDec(1786, 1), FDec(1785999, 4), FInt(190), FInt(150), FInt(120)}
LastVolumes == {100, 200}

\* indicator columns of the last row (hist) and of the rows before it (prev)
Profiles ==
    {[BB_Upper |-> FInt(170), OBV |-> FInt(1), OBV_MA |-> FInt(0),
      hist |-> FInt(2), prev |-> FInt(1)],
     [BB_Upper |-> FNaN, OBV |-> FInt(0), OBV_MA |-> FNaN,
      hist |-> FInt(1), prev |-> FInt(2)]}

Edges == {"none", "first of window", "before window"}

SigLengths == {1, 2} \cup ((W20 - 1)..(W20 + MaxExtra))

\* what a bar before the last one may be: the frame's quiet bar or a candle
Kinds == {"quiet", "breakout1", "breakout2"}

OfKind(kind, base) ==
    IF kind = "breakout1" THEN Breakout1
    ELSE IF kind = "breakout2" THEN Breakout2
    ELSE base

SigRow(n, k, base, free, edge, last, prof) ==
    LET ohlcv ==
            IF k = n - 1 THEN last
            ELSE IF n - 1 - k <= MaxFree THEN OfKind(free[n - 1 - k], base)
            ELSE IF edge = "first of window" /\ k = n - W20 THEN Breakout1
            ELSE IF edge = "before window" /\ k = n - W20 - 1 THEN Breakout1
            ELSE base
    IN  [Date |-> k, Open |-> ohlcv.Open, High |-> ohlcv.High, Low |-> ohlcv.Low,
         Close |-> ohlcv.Close, Volume |-> ohlcv.Volume,
         BB_Upper |-> prof.BB_Upper, OBV |-> prof.OBV, OBV_MA |-> prof.OBV_MA,
         MACD_Hist |-> IF k = n - 1 THEN prof.hist ELSE prof.prev]

SigFrame(n, base, free, edge, last, prof) ==
    [k \in 1..n |-> SigRow(n, k - 1, base, free, edge, last, prof)]

SigIdle ==
    /\ sig_df = <<>>
    /\ sig_pc = "idle"
    /\ signals = NoSignals
    /\ sig_raised = "none"

BtIdle ==
    /\ data = [Close |-> <<>>, MA5 |-> <<>>, MA20 |-> <<>>]
    /\ initial_capital = 0
    /\ pc = "idle"
    /\ Signal = <<>>
    /\ i = 0
    /\ cash = 0
    /\ position = 0
    /\ trade_log = <<>>
    /\ equity_curve = <<>>
    /\ total_return = NaN
    /\ raised = "none"

ValIdle ==
    /\ edited_df = <<>>
    /\ feed = [fails |-> TRUE, Close |-> <<>>]
    /\ val_pc = "idle"
    /\ live_prices = <<>>
    /\ res_df = <<>>
    /\ total_val = FZero
    /\ total_pl = FZero

IndIdle ==
    /\ ind_df = <<>>
    /\ ind_pc = "idle"
    /\ var_95 = NaN

SigInit ==
    /\ \E n \in SigLengths, base \in BaseBars, free \in [1..MaxFree -> Kinds],
          edge \in Edges, c \in LastCloses, v \in LastVolumes, prof \in Profiles :
            sig_df = SigFrame(n, base, free, edge, LastBar(c, v), prof)
    /\ sig_pc = "main"
    /\ signals = NoSignals
    /\ sig_raised = "none"
    /\ BtIdle
    /\ ValIdle
    /\ IndIdle

\* main flow, lines 289-295: the period high and low, then generate_signals
MainSignals ==
    /\ sig_pc = "main"
    /\ \E r \in {GenerateSignals(sig_df, HighMax(sig_df, Len(sig_df)),
                                 LowMin(sig_df, Len(sig_df)))} :
          /\ signals' = r.signals
          /\ sig_raised' = r.raised
    /\ sig_pc' = "done"
    /\ UNCHANGED <<sig_df, btVars, valVars, indVars>>

SigNext == MainSignals

SpecSig == SigInit /\ [][SigNext]_vars

----------------------------------------------------------------------------
(* tab4 (lines 379-391): get_live_prices, then the valuation of the holdings *)
(* Columns: symbol is 代號, avgCost 買入均價, shares 持有股數, livePrice 現價,  *)
(* marketValue 市值, costBasis 成本, profitLoss 損益, returnPct 報酬率%.       *)

\* a symbol for which the downloaded frame has no Close to take
NoClose == [k |-> "missing", s |-> 0, m |-> <<>>, e |-> 0]

\* line 379: edited_df['代號'].astype(str).unique().tolist()
Tickers(df) == {df[n].symbol : n \in 1..Len(df)}

\* get_live_prices, lines 264-280: nothing for no ticker or a failed
\* download; for one ticker the frame's last Close, a failure there being
\* swallowed by the outer except; for several tickers, 0 for each that fails
GetLivePricesOf(ticker_list, answer) ==
    IF ticker_list = {} \/ answer.fails THEN <<>>
    ELSE IF Cardinality(ticker_list) = 1
    THEN LET t == CHOOSE t \in ticker_list : TRUE
         IN  IF answer.Close[t] = NoClose THEN <<>>
             ELSE [x \in ticker_list |-> answer.Close[x]]
    ELSE [t \in ticker_list |->
            IF answer.Close[t] = NoClose THEN FZero ELSE answer.Close[t]]

\* Series.map(dict): NaN for a key the dict lacks
MapPrices(symbol, prices) ==
    IF symbol \in DOMAIN prices THEN prices[symbol] ELSE FNaN

\* fillna that replaces nothing
FillNaKeep(x) == x

\* Series.fillna(0): NaN becomes 0, everything else stays, infinities too
FillNa(x) == IF FIsNaN(x) THEN FZero ELSE x

\* lines 383-387, one row
ValuedRow(h, prices) ==
    LET livePrice   == FillNa(MapPrices(h.symbol, prices))
        marketValue == FMul(livePrice, FInt(h.shares))
        costBasis   == FMul(FInt(h.avgCost), FInt(h.shares))
        profitLoss  == FSub(marketValue, costBasis)
    IN  [symbol |-> h.symbol, avgCost |-> h.avgCost, shares |-> h.shares,
         livePrice |-> livePrice, marketValue |-> marketValue,
         costBasis |-> costBasis, profitLoss |-> profitLoss,
         returnPct |-> FillNa(FMul(FDiv(profitLoss, costBasis), FInt(100)))]

\* Series.sum(): NaN entries are skipped, the empty sum is 0
RECURSIVE ColumnSum(_, _, _)
ColumnSum(rows, col, n) ==
    IF n = 0 THEN FZero
    ELSE IF FIsNaN(rows[n][col]) THEN ColumnSum(rows, col, n - 1)
    ELSE FAdd(ColumnSum(rows, col, n - 1), rows[n][col])

Symbols == {"A", "B"}
AvgCosts == {0, 500}
ShareCounts == {0, 1000}
Holdings == [symbol : Symbols, avgCost : AvgCosts, shares : ShareCounts]
Closings == {NoClose, FNaN, FInt(450)}
Feeds == [fails : BOOLEAN, Close : [Symbols -> Closings]]

ValInit ==
    /\ \E n \in 0..MaxHoldings : edited_df \in [1..n -> Holdings]
    /\ feed \in Feeds
    /\ val_pc = "calc"
    /\ live_prices = <<>>
    /\ res_df = <<>>
    /\ total_val = FZero
    /\ total_pl = FZero
    /\ BtIdle
    /\ SigIdle
    /\ IndIdle

\* lines 379-380
GetLivePrices ==
    /\ val_pc = "calc"
    /\ live_prices' = GetLivePricesOf(Tickers(edited_df), feed)
    /\ val_pc' = "priced"
    /\ UNCHANGED <<edited_df, feed, res_df, total_val, total_pl>>
    /\ UNCHANGED <<btVars, sigVars, indVars>>

\* lines 381-389: res_df is a copy, edited_df is not written
Valuate ==
    /\ val_pc = "priced"
    /\ res_df' = [n \in 1..Len(edited_df) |-> ValuedRow(edited_df[n], live_prices)]
    /\ total_val' = ColumnSum(res_df', "marketValue", Len(res_df'))
    /\ total_pl' = ColumnSum(res_df', "profitLoss", Len(res_df'))
    /\ val_pc' = "done"
    /\ UNCHANGED <<edited_df, feed, live_prices>>
    /\ UNCHANGED <<btVars, sigVars, indVars>>

ValNext ==
    \/ GetLivePrices
    \/ Valuate

SpecVal == ValInit /\ [][ValNext]_vars

----------------------------------------------------------------------------
(* Inputs: the closes yfinance returned and run_backtest's capital *)

Prices == {k * Tick : k \in 1..MaxPrice}

\* n bars: a flat lead-in of at most FlatLen bars at price p, then free bars
LeadIn(n, p, tail) ==
    [k \in 1..n |-> IF k <= FlatLen THEN p ELSE tail[k - FlatLen]]

\* the series of the spec's crossover scenario (10 bars)
Scenario == <<10, 10, 10, 10, 10, 11, 12, 9, 8, 10>>

CloseSeries ==
    {LeadIn(n, p, tail) :
        n \in 0..(FlatLen + MaxTail),
        p \in Prices,
        tail \in [1..MaxTail -> Prices]}

Closes == CloseSeries \cup {Scenario}

Capitals == {k * Tick : k \in 0..MaxCap}

----------------------------------------------------------------------------
(* Main flow: load_data, then tab5's run_backtest(full_df) *)

Init ==
    /\ data \in {[Close |-> c, MA5 |-> <<>>, MA20 |-> <<>>] : c \in Closes}
    /\ initial_capital \in Capitals
    /\ pc = "load"
    /\ Signal = <<>>
    /\ i = 0
    /\ cash = 0
    /\ position = 0
    /\ trade_log = <<>>
    /\ equity_curve = <<>>
    /\ total_return = NaN
    /\ raised = "none"
    /\ SigIdle
    /\ ValIdle
    /\ IndIdle

\* load_data, lines 170-196: an empty download returns an empty frame
LoadData ==
    /\ pc = "load"
    /\ data' = IF data.Close = <<>> THEN data
               ELSE [data EXCEPT !.MA5 = Rolling(data.Close, W5),
                                 !.MA20 = Rolling(data.Close, W20)]
    /\ pc' = "main"
    /\ UNCHANGED <<initial_capital, Signal, i, cash, position, trade_log,
                   equity_curve, total_return, raised>>
    /\ UNCHANGED <<sigVars, valVars, indVars>>

\* lines 286-287: nothing is computed on an empty frame
MainEmpty ==
    /\ pc = "main"
    /\ data.Close = <<>>
    /\ pc' = "nodata"
    /\ UNCHANGED <<data, initial_capital, Signal, i, cash, position, trade_log,
                   equity_curve, total_return, raised>>
    /\ UNCHANGED <<sigVars, valVars, indVars>>

\* run_backtest, lines 96-104
BacktestStart ==
    /\ pc = "main"
    /\ data.Close # <<>>
    /\ Signal' = [k \in 1..Len(data.Close) |-> SignalAt(data, k - 1)]
    /\ cash' = initial_capital
    /\ position' = 0
    /\ trade_log' = <<>>
    /\ equity_curve' = <<>>
    /\ i' = 0
    /\ pc' = "loop"
    /\ UNCHANGED <<data, initial_capital, total_return, raised>>
    /\ UNCHANGED <<sigVars, valVars, indVars>>

\* run_backtest, lines 106-122: one iteration of the loop
BacktestStep ==
    /\ pc = "loop"
    /\ i < Len(data.Close)
    /\ LET price  == At(data.Close, i)
           signal == At(Signal, i)
       IN  /\ IF signal = 1 /\ position = 0
              THEN LET shares == BuyShares(cash, price)
                   IN  /\ position' = shares
                       /\ cash' = cash - shares * price
                       /\ trade_log' = Append(trade_log, Trade(i, "Buy", price, shares))
              ELSE IF signal = -1 /\ position > 0
              THEN /\ cash' = cash + position * price
                   /\ trade_log' = Append(trade_log, Trade(i, "Sell", price, position))
                   /\ position' = 0
              ELSE UNCHANGED <<cash, position, trade_log>>
           /\ equity_curve' = Append(equity_curve, CurrentEquity(cash', position', price))
    /\ i' = i + 1
    /\ UNCHANGED <<data, initial_capital, pc, Signal, total_return, raised>>
    /\ UNCHANGED <<sigVars, valVars, indVars>>

\* run_backtest, lines 124-127: iloc[-1] of an empty column raises IndexError
BacktestReturn ==
    /\ pc = "loop"
    /\ i = Len(data.Close)
    /\ IF equity_curve = <<>>
       THEN raised' = "IndexError" /\ UNCHANGED total_return
       ELSE /\ total_return' = TotalReturn(equity_curve[Len(equity_curve)], initial_capital)
            /\ UNCHANGED raised
    /\ pc' = "done"
    /\ UNCHANGED <<data, initial_capital, Signal, i, cash, position, trade_log,
                   equity_curve>>
    /\ UNCHANGED <<sigVars, valVars, indVars>>

Next ==
    \/ LoadData
    \/ MainEmpty
    \/ BacktestStart
    \/ BacktestStep
    \/ BacktestReturn

Spec == Init /\ [][Next]_vars

----------------------------------------------------------------------------
(* load_data (lines 170-196), every column it adds to the downloaded frame.  *)
(* Closes and volumes are whole numbers. Rolling means, the OBV and the      *)
(* returns are exact fractions; a standard deviation is kept as the fraction *)
(* it is the root of, a Bollinger band as its middle and the square of its   *)
(* distance from it; the exponential means are float64.                      *)

RECURSIVE SumSquares(_, _, _)
SumSquares(col, lo, hi) ==
    IF lo > hi THEN 0 ELSE At(col, hi) * At(col, hi) + SumSquares(col, lo, hi - 1)

\* the non-negative root of the fraction v
Root(v) == [nan |-> FALSE, sq |-> v]
NaNRoot == [nan |-> TRUE, sq |-> Frac(0, 1)]

\* the sample variance (ddof = 1) of n values with sum s and sum of squares q
Variance(n, s, q) == Reduced(n * q - s * s, n * (n - 1))

\* Series.rolling(window=w).std() at row k
RollingStd(col, w, k) ==
    IF k + 1 < MinPeriods(w) \/ k + 1 < 2 THEN NaNRoot
    ELSE Root(Variance(w, SumRange(col, k - w + 1, k), SumSquares(col, k - w + 1, k)))

\* lines 183-184: MA20 + side * (2 * STD20)
Band(ma, side, std) ==
    IF ma.nan \/ std.nan THEN [nan |-> TRUE, mid |-> NaN, side |-> side, sq |-> NaN]
    ELSE [nan |-> FALSE, mid |-> ma, side |-> side,
          sq |-> Reduced(4 * std.sq.num, std.sq.den)]

\* ewm(span=span): alpha = 1 / (1 + com) with com = (span - 1) / 2
EwmAlpha(span) == FDiv(FInt(1), FAdd(FInt(1), FDiv(FInt(span - 1), FInt(2))))

\* one step of the exponential mean with adjust=False: the weights of the old
\* mean and of the new value are 1 - alpha and alpha
EwmStep(weighted, cur, old_wt, new_wt) ==
    IF FCmp(weighted, cur) = 0 THEN weighted
    ELSE FDiv(FAdd(FMul(old_wt, weighted), FMul(new_wt, cur)), FAdd(old_wt, new_wt))

EwmAppend(out, cur, old_wt, new_wt) ==
    Append(out, EwmStep(out[Len(out)], cur, old_wt, new_wt))

\* the first n rows: row 0 is the first value, min_periods is 0
RECURSIVE EwmRows(_, _, _, _)
EwmRows(col, n, old_wt, new_wt) ==
    IF n = 1 THEN <<col[1]>>
    ELSE EwmAppend(EwmRows(col, n - 1, old_wt, new_wt), col[n], old_wt, new_wt)

EwmWith(col, alpha) == EwmRows(col, Len(col), FSub(FInt(1), alpha), alpha)

\* Series.ewm(span=span, adjust=False).mean() of a float column without NaN
Ewm(col, span) == IF col = <<>> THEN col ELSE EwmWith(col, EwmAlpha(span))

Span12 == 12
Span26 == 26
Span9 == 9

Floats(col) == [k \in 1..Len(col) |-> FInt(col[k])]

Minus(a, b) == [k \in 1..Len(a) |-> FSub(a[k], b[k])]

\* line 187: exp12 - exp26
Dif(close) == Minus(Ewm(Floats(close), Span12), Ewm(Floats(close), Span26))

Sign(x) == IF x > 0 THEN 1 ELSE IF x < 0 THEN -1 ELSE 0

\* line 190: (np.sign(Close.diff()) * Volume).fillna(0).cumsum() at row k
RECURSIVE Obv(_, _, _)
Obv(close, volume, k) ==
    IF k = 0 THEN 0
    ELSE Obv(close, volume, k - 1)
            + Sign(At(close, k) - At(close, k - 1)) * At(volume, k)

\* line 192: Close.pct_change() at row k
PctChange(close, k) ==
    IF k = 0 THEN NaN
    ELSE Reduced(At(close, k) - At(close, k - 1), At(close, k - 1))

\* the number of defined entries of col below v, and not above v
Below(col, v) == Cardinality({k \in 1..Len(col) : Lt(col[k], v)})
UpTo(col, v) == Cardinality({k \in 1..Len(col) : Le(col[k], v)})

\* the j-th smallest defined entry, j counted from 0
Ranked(col, j) ==
    col[CHOOSE k \in 1..Len(col) :
            ~col[k].nan /\ Below(col, col[k]) <= j /\ j < UpTo(col, col[k])]

\* a + (b - a) * g / 20
Lerp(a, b, g) ==
    Reduced(20 * a.num * b.den + g * (b.num * a.den - a.num * b.den),
            20 * a.den * b.den)

\* Series.quantile(0.05) over the m defined entries: linear interpolation at
\* position (m - 1) * 0.05
QuantileOf(col, m) ==
    IF m = 0 THEN NaN
    ELSE IF (m - 1) % 20 = 0 THEN Ranked(col, (m - 1) \div 20)
    ELSE Lerp(Ranked(col, (m - 1) \div 20), Ranked(col, (m - 1) \div 20 + 1),
              (m - 1) % 20)

Quantile05(col) == QuantileOf(col, Cardinality({k \in 1..Len(col) : ~col[k].nan}))

\* lines 180-192 on the columns built so far
WithMacd(df, dif) ==
    [df EXCEPT !.DIF = dif, !.DEA = Ewm(dif, Span9),
               !.MACD_Hist = Minus(dif, Ewm(dif, Span9))]

WithObv(df, obv) == [df EXCEPT !.OBV = obv, !.OBV_MA = Rolling(obv, W20)]

Indicators(close, volume) ==
    [Close |-> close, Volume |-> volume,
     MA5 |-> Rolling(close, W5),
     MA20 |-> Rolling(close, W20),
     STD20 |-> [k \in 1..Len(close) |-> RollingStd(close, W20, k - 1)],
     BB_Upper |-> [k \in 1..Len(close) |->
                     Band(RollingMean(close, W20, k - 1), 1,
                          RollingStd(close, W20, k - 1))],
     BB_Lower |-> [k \in 1..Len(close) |->
                     Band(RollingMean(close, W20, k - 1), -1,
                          RollingStd(close, W20, k - 1))],
     DIF |-> <<>>, DEA |-> <<>>, MACD_Hist |-> <<>>, OBV |-> <<>>, OBV_MA |-> <<>>,
     Returns |-> [k \in 1..Len(close) |-> PctChange(close, k - 1)]]

AllIndicators(close, volume) ==
    WithObv(WithMacd(Indicators(close, volume), Dif(close)),
            [k \in 1..Len(close) |-> Obv(close, volume, k - 1)])

IndVolumes == {100, 200}

\* a frame without rows
EmptyFrame == [Close |-> <<>>, Volume |-> <<>>]

IndCloses ==
    UNION {{LeadIn(n, p, tail) :
                p \in 1..MaxClose,
                tail \in [1..(IF n > FlatLen THEN n - FlatLen ELSE 0) -> 1..MaxClose]} :
           n \in 0..(FlatLen + MaxMore)}

IndInit ==
    /\ \E close \in IndCloses, v \in IndVolumes :
          ind_df = [Close |-> close, Volume |-> [k \in 1..Len(close) |-> v]]
    /\ ind_pc = "load"
    /\ var_95 = NaN
    /\ BtIdle
    /\ SigIdle
    /\ ValIdle

\* load_data: an empty download returns an empty frame and 0
LoadIndicators ==
    /\ ind_pc = "load"
    /\ IF ind_df.Close = <<>>
       THEN /\ ind_df' = EmptyFrame
            /\ var_95' = Frac(0, 1)
       ELSE /\ ind_df' = AllIndicators(ind_df.Close, ind_df.Volume)
            /\ var_95' = Quantile05(ind_df'.Returns)
    /\ ind_pc' = "done"
    /\ UNCHANGED <<btVars, sigVars, valVars>>

IndNext == LoadIndicators

SpecInd == IndInit /\ [][IndNext]_vars

----------------------------------------------------------------------------
(* Vocabulary of the claims about run_backtest, read off the frame itself *)

NBars == Len(data.Close)

Known(col, k) == k >= 0 /\ k < Len(col) /\ ~At(col, k).nan

AllKnown(k) ==
    /\ Known(data.MA5, k) /\ Known(data.MA20, k)
    /\ Known(data.MA5, k - 1) /\ Known(data.MA20, k - 1)

\* ma5[k] - ma20[k], scaled by both windows (a whole number)
Spread(k) ==
    At(data.MA5, k).num * At(data.MA20, k).den
        - At(data.MA20, k).num * At(data.MA5, k).den

UpCross(k) == AllKnown(k) /\ Spread(k) > 0 /\ Spread(k - 1) <= 0
DownCross(k) == AllKnown(k) /\ Spread(k) < 0 /\ Spread(k - 1) >= 0

Stepping == pc = "loop" /\ i < NBars /\ i' = i + 1

Returned == pc = "done" /\ raised = "none"

LastTrade == trade_log[Len(trade_log)]

\* cash and shares after bar k, replayed from the trade log
RECURSIVE CashAfter(_, _)
CashAfter(k, n) ==
    IF n = 0 THEN initial_capital
    ELSE LET t == trade_log[n]
             amount == IF t.Date > k THEN 0
                       ELSE IF t.Type = "Buy" THEN -(t.Shares * t.Price)
                       ELSE t.Shares * t.Price
         IN  CashAfter(k, n - 1) + amount

RECURSIVE SharesAfter(_, _)
SharesAfter(k, n) ==
    IF n = 0 THEN 0
    ELSE IF trade_log[n].Date > k THEN SharesAfter(k, n - 1)
    ELSE IF trade_log[n].Type = "Buy" THEN trade_log[n].Shares ELSE 0

----------------------------------------------------------------------------
(* C1: a buy signal while Flat with cash < price leaves shares 0, cash       *)
(* unchanged, and appends nothing to the trade log. Stated for the call the  *)
(* application makes, run_backtest(full_df) with the default capital.        *)
C1_NoTradeLoggedWhenCashBelowPrice ==
    [][(/\ Stepping
        /\ initial_capital = DefaultCapital
        /\ UpCross(i)
        /\ position = 0
        /\ cash < At(data.Close, i))
       => (position' = 0 /\ cash' = cash /\ trade_log' = trade_log)]_vars

(* C2: cash >= 0 after every step of the loop, before and after each Buy    *)
(* and each Sell, for every initial capital >= 0 and positive closes.       *)
C2_CashNeverNegative ==
    pc \in {"loop", "done"} => cash >= 0

\* a Buy that left a remainder, then a Sell
C2_Witness ==
    /\ pc = "loop"
    /\ Len(trade_log) = 2
    /\ trade_log[1].Shares > 0
    /\ trade_log[1].Shares * trade_log[1].Price < initial_capital
    /\ trade_log[2].Type = "Sell"
    /\ cash > 0

(* C3: a Buy is logged at bar i only if Flat before it and ma5 crosses      *)
(* above ma20 with all four values defined; a Sell only if Long before it   *)
(* and ma5 crosses below; on every other bar, and on every bar with index   *)
(* < 20, cash, shares and the trade log are unchanged.                      *)
C3_TradesOnlyOnCrosses ==
    [][Stepping =>
        LET buy  == position = 0 /\ UpCross(i)
            sell == position > 0 /\ DownCross(i)
        IN  /\ trade_log' # trade_log =>
                /\ Len(trade_log') = Len(trade_log) + 1
                /\ SubSeq(trade_log', 1, Len(trade_log)) = trade_log
                /\ trade_log'[Len(trade_log')].Date = i
                /\ \/ trade_log'[Len(trade_log')].Type = "Buy" /\ buy
                   \/ trade_log'[Len(trade_log')].Type = "Sell" /\ sell
            /\ (~buy /\ ~sell) => UNCHANGED <<cash, position, trade_log>>
            /\ i < W20 => UNCHANGED <<cash, position, trade_log>>]_vars

\* both kinds of trade were logged, on bars past the warm-up
C3_Witness ==
    /\ pc = "done"
    /\ Len(trade_log) >= 2
    /\ trade_log[1].Type = "Buy" /\ trade_log[1].Date >= W20
    /\ trade_log[2].Type = "Sell"

(* C4: for N >= 1 bars the equity curve has N entries, entry i being         *)
(* cash + shares*close[i] after any trade at bar i; an open Long position    *)
(* is not sold at the end; totalReturnPct is (equity[N-1] - capital) /       *)
(* capital * 100 with the open position marked to market.                    *)
C4_EquityCurveAndReturn ==
    Returned =>
        /\ Len(equity_curve) = NBars
        /\ \A k \in 0..(NBars - 1) :
              At(equity_curve, k) =
                  CashAfter(k, Len(trade_log))
                      + SharesAfter(k, Len(trade_log)) * At(data.Close, k)
        /\ position > 0 =>
              /\ LastTrade.Type = "Buy"
              /\ LastTrade.Shares = position
        /\ initial_capital > 0 =>
              LET final == cash + position * At(data.Close, NBars - 1)
              IN  /\ ~total_return.nan
                  /\ total_return.num * initial_capital
                        = (final - initial_capital) * 100 * total_return.den

\* the run ended Long, at a close other than the purchase price
C4_Witness ==
    /\ Returned
    /\ position > 0
    /\ initial_capital > 0
    /\ At(data.Close, NBars - 1) # LastTrade.Price
    /\ total_return.num # 0

(* C5 as stated: on closes = [10,10,10,10,10,11,12,9,8,10] a buy triggers    *)
(* and the trade log's first entry is a Buy.                                 *)
C5_ScenarioLogsBuy ==
    (pc = "done" /\ data.Close = Scenario) =>
        (trade_log # <<>> /\ trade_log[1].Type = "Buy")

(* C5 amended: on the 10-bar scenario ma20 is undefined on every bar, no     *)
(* cross occurs and the trade log is empty; in general the first entry of a  *)
(* non-empty trade log is a Buy at the first bar with an upward cross.       *)
C5_FirstTradeIsFirstUpCross ==
    pc = "done" =>
        /\ data.Close = Scenario =>
              /\ trade_log = <<>>
              /\ \A k \in 0..(NBars - 1) : At(data.MA20, k).nan
        /\ trade_log # <<>> =>
              /\ trade_log[1].Type = "Buy"
              /\ UpCross(trade_log[1].Date)
              /\ \A k \in 0..(trade_log[1].Date - 1) : ~UpCross(k)
        /\ (\E k \in 0..(NBars - 1) : UpCross(k)) => trade_log # <<>>

\* a first Buy on the first bar that can carry a cross
C5_Witness ==
    /\ pc = "done"
    /\ trade_log # <<>>
    /\ trade_log[1].Type = "Buy"
    /\ trade_log[1].Date = W20
    /\ trade_log[1].Shares > 0

----------------------------------------------------------------------------
(* Vocabulary of the claims about generate_signals, read off the frame *)

SigN == Len(sig_df)

SigReturned == sig_pc = "done" /\ sig_raised = "none"

SigLast == At(sig_df, SigN - 1)

\* bar k is one of the 19 bars before the last one, closes more than 3% above
\* its open, and its volume exceeds 1.5 times the mean volume of the last 20
\* bars (in whole numbers: 2 * 20 * volume > 3 * the sum of those volumes)
Qualifies(k) ==
    /\ SigN >= W20
    /\ k >= SigN - W20 /\ k <= SigN - 2
    /\ FGt(At(sig_df, k).Close, FMul(At(sig_df, k).Open, Factor103))
    /\ 2 * W20 * At(sig_df, k).Volume > 3 * VolumeSum(sig_df, SigN - W20, SigN - 1)

MostRecentQualifying(k) ==
    Qualifies(k) /\ \A j \in (k + 1)..(SigN - 1) : ~Qualifies(j)

\* the last bar holds bar k's low on less than 0.6 of bar k's volume
HoldsAbove(k) ==
    /\ FGe(SigLast.Close, At(sig_df, k).Low)
    /\ 5 * SigLast.Volume < 3 * At(sig_df, k).Volume

FibZones == {"danger", "elevated", "accumulation", "neutral"}

PeriodIs(low, high) ==
    /\ FCmp(LowMin(sig_df, SigN), FInt(low)) = 0
    /\ FCmp(HighMax(sig_df, SigN), FInt(high)) = 0

----------------------------------------------------------------------------
(* C6: on input shorter than the indicator warm-up, length 0 or 1 included,  *)
(* generate_signals does not raise but reports insufficient data as a value. *)
C6_ShortInputDoesNotRaise ==
    (sig_pc = "done" /\ SigN < W20) => sig_raised = "none"

(* C9: the last close falls in exactly one Fibonacci zone; with period low   *)
(* 100 and period high 200 a close of 178.6 is in the danger zone and a      *)
(* close of 178.5999 is elevated.                                            *)
C9_FibonacciZones ==
    SigReturned =>
        /\ signals.position \in FibZones
        /\ (PeriodIs(100, 200) /\ FCmp(SigLast.Close, FDec(1786, 1)) = 0)
              => signals.position = "danger"
        /\ (PeriodIs(100, 200) /\ FCmp(SigLast.Close, FDec(1785999, 4)) = 0)
              => signals.position = "elevated"

(* C10: a wash-sale is flagged iff some bar among N-20..N-2 qualifies and    *)
(* the most recent qualifying bar k has close[N-1] >= low[k] and             *)
(* volume[N-1] < 0.6 * volume[k]; an earlier qualifying bar never causes a   *)
(* flag, the current bar is never the key candle, and the reported date and  *)
(* low are those of bar k.                                                   *)
C10_WashSaleByMostRecentCandle ==
    SigReturned =>
        /\ signals.wash_detected <=>
              \E k \in 0..(SigN - 1) : MostRecentQualifying(k) /\ HoldsAbove(k)
        /\ signals.wash_detected =>
              \E k \in 0..(SigN - 2) :
                  /\ MostRecentQualifying(k)
                  /\ signals.wash_sale_msg.date = At(sig_df, k).Date
                  /\ signals.wash_sale_msg.low = Format1f(At(sig_df, k).Low)

\* flagged on the newer of two qualifying bars with different lows
C10_Witness ==
    /\ SigReturned
    /\ signals.wash_detected
    /\ \E j \in 0..(SigN - 2), k \in 0..(SigN - 2) :
          /\ j < k
          /\ Qualifies(j) /\ Qualifies(k)
          /\ At(sig_df, j).Low # At(sig_df, k).Low
          /\ signals.wash_sale_msg.date = At(sig_df, k).Date

----------------------------------------------------------------------------
(* Vocabulary of the claims about the valuation *)

Valued == val_pc = "done"

\* the whole number a finite float with no fractional part stands for
WholeOf(x) == (IF x.s = 1 THEN -1 ELSE 1) * ToInt(ShiftLeft(x.m, x.e))

\* the price the lookup holds for a symbol, 0 when it holds none
LookedUp(symbol) ==
    IF ~feed.fails /\ feed.Close[symbol].k = "fin" THEN feed.Close[symbol]
    ELSE FZero

RowValue(n) == WholeOf(LookedUp(edited_df[n].symbol)) * edited_df[n].shares
RowCost(n) == edited_df[n].avgCost * edited_df[n].shares

RECURSIVE TotalValue(_)
TotalValue(n) == IF n = 0 THEN 0 ELSE TotalValue(n - 1) + RowValue(n)

RECURSIVE TotalCost(_)
TotalCost(n) == IF n = 0 THEN 0 ELSE TotalCost(n - 1) + RowCost(n)

----------------------------------------------------------------------------
(* C7: every holding whose cost basis avgCost * shares is 0 has returnPct    *)
(* exactly 0, and no holding's returnPct is infinite or NaN.                 *)
C7_ZeroCostReturnIsZero ==
    Valued =>
        \A n \in 1..Len(res_df) :
            /\ RowCost(n) = 0 => res_df[n].returnPct = FZero
            /\ res_df[n].returnPct.k = "fin"

(* C8: each holding gets livePrice = the looked-up price, or 0 when the      *)
(* symbol is missing or the lookup failed; marketValue = livePrice * shares; *)
(* costBasis = avgCost * shares; profitLoss = marketValue - costBasis;       *)
(* returnPct = profitLoss / costBasis * 100 when costBasis # 0; the totals   *)
(* are the sums over all holdings; the input rows are unchanged; and         *)
(* avgCost 500, shares 1000, livePrice 450 gives 450000, 500000, -50000,     *)
(* -10.0.                                                                    *)
C8_ValuationOfHoldings ==
    Valued =>
        /\ Len(res_df) = Len(edited_df)
        /\ \A n \in 1..Len(res_df) :
              LET h == edited_df[n]
                  r == res_df[n]
              IN  /\ r.symbol = h.symbol /\ r.avgCost = h.avgCost
                  /\ r.shares = h.shares
                  /\ r.livePrice = LookedUp(h.symbol)
                  /\ r.marketValue = FInt(RowValue(n))
                  /\ r.costBasis = FInt(RowCost(n))
                  /\ r.profitLoss = FInt(RowValue(n) - RowCost(n))
                  /\ RowCost(n) # 0 =>
                        r.returnPct = FMul(FDiv(r.profitLoss, r.costBasis), FInt(100))
                  /\ (h.avgCost = 500 /\ h.shares = 1000 /\ r.livePrice = FInt(450)) =>
                        /\ r.marketValue = FInt(450000)
                        /\ r.costBasis = FInt(500000)
                        /\ r.profitLoss = FInt(-50000)
                        /\ r.returnPct = FInt(-10)
        /\ total_val = FInt(TotalValue(Len(edited_df)))
        /\ total_pl = FInt(TotalValue(Len(edited_df)) - TotalCost(Len(edited_df)))

\* the holding of the example next to one whose symbol has no price
C8_Witness ==
    /\ Valued
    /\ \E n \in 1..Len(res_df), k \in 1..Len(res_df) :
          /\ edited_df[n].avgCost = 500 /\ edited_df[n].shares = 1000
          /\ res_df[n].livePrice = FInt(450)
          /\ res_df[n].returnPct = FInt(-10)
          /\ edited_df[k].shares = 1000
          /\ feed.Close[edited_df[k].symbol] # FInt(450)
          /\ res_df[k].livePrice = FZero
          /\ total_val = FInt(450000)

----------------------------------------------------------------------------
(* C12: in every run the trade log alternates Buy, Sell, Buy, ... starting   *)
(* with a Buy: no two consecutive entries have the same side, every Buy has  *)
(* shares > 0, and each Sell's share count is that of the Buy before it.     *)
C12_TradeLogAlternates ==
    \A n \in 1..Len(trade_log) :
        /\ trade_log[n].Type = (IF n % 2 = 1 THEN "Buy" ELSE "Sell")
        /\ trade_log[n].Type = "Buy" => trade_log[n].Shares > 0
        /\ trade_log[n].Type = "Sell" =>
              n > 1 /\ trade_log[n].Shares = trade_log[n - 1].Shares

----------------------------------------------------------------------------
(* C11: every derived field is undefined until enough preceding bars exist:  *)
(* ma5 at every index < 4, ma20, std20 and the Bollinger bands at every      *)
(* index < 19, the MACD line until the 26 bars of the slow EMA, the signal   *)
(* line and the histogram until 35 bars.                                     *)
C11_UndefinedUntilWarmUp ==
    ind_pc = "done" =>
        \A k \in 0..(Len(ind_df.Close) - 1) :
            /\ k < W5 - 1 => At(ind_df.MA5, k).nan
            /\ k < W20 - 1 =>
                  /\ At(ind_df.MA20, k).nan
                  /\ At(ind_df.STD20, k).nan
                  /\ At(ind_df.BB_Upper, k).nan
                  /\ At(ind_df.BB_Lower, k).nan
            /\ k < Span26 - 1 => FIsNaN(At(ind_df.DIF, k))
            /\ k < Span26 + Span9 - 1 =>
                  /\ FIsNaN(At(ind_df.DEA, k))
                  /\ FIsNaN(At(ind_df.MACD_Hist, k))

====
